---- MODULE Spec2Model ----
(***************************************************************************)
(* The NachOS file system of FS_NachOS: file headers with direct, single-  *)
(* and double-indirect pointers (filehdr.cc), the sector bitmap, the       *)
(* directories and the path-taking operations of FileSystem (filesys.cc).  *)
(*                                                                         *)
(* The disk is an array of sectors of SectorSize cells.  A cell holds one  *)
(* integer: the model's byte is one int-sized field, so sizeof(int) = 1,   *)
(* a file of n bytes is a file of n cells, and every on-disk structure is  *)
(* laid out cell by cell as the C++ object is laid out field by field.     *)
(* Reading a sector through the "wrong" type is therefore defined, as it   *)
(* is on the real disk.  A disk that was never written holds zeros.        *)
(***************************************************************************)
EXTENDS Integers, Sequences, FiniteSets, TLC

VARIABLES disk, freeMapFile, curSector, curFile, curDir, aborted, last, nops,
          live, h, openedTable, threads

vars == <<disk, freeMapFile, curSector, curFile, curDir, aborted, last, nops,
          live, h, openedTable, threads>>

(*************************** sizes of the model ***************************)
\* filehdr.h: NumDirect = (SectorSize - 4*sizeof(int)) / sizeof(int).  The
\* model fixes NumDirect and derives SectorSize from it.
NumDirect == 3
NumIndirect == 2
NumSectors == 18
NumDirEntries == 2
MaxOps == 2

FreeMapSector == 0
DirectorySector == 1

\* the header (numBytes, numSectors, dataSectors[NumDirect], Single, Double)
\* fills exactly one sector
SectorSize == NumDirect + 4

\* one directory entry: inUse, sector, kind, name
EntryCells == 4
IS_FILE == 0
IS_DIR == 1

\* one bit of the bitmap per cell
BitsInByte == 1
FreeMapFileSize == NumSectors \div BitsInByte
DirectoryFileSize == EntryCells * NumDirEntries

Sectors == 0 .. (NumSectors - 1)

\* values an uninitialised int that is used as a sector number can hold:
\* any sector of the disk, or (-1) a number that is no sector
Garbage == (-1) .. (NumSectors - 1)

(******************************* utilities ********************************)
divRoundUp(n, s) == (n + s - 1) \div s

Min(x, y) == IF x < y THEN x ELSE y

Zeros(n) == [i \in 1 .. n |-> 0]

ZeroSector == Zeros(SectorSize)

\* cells 'from'..'to' (1-based) of a sequence
Slice(s, from, to) == [i \in 1 .. (to - from + 1) |-> s[from + i - 1]]

Pad(s) == s \o Zeros(SectorSize - Len(s))

InRange(s) == s >= 0 /\ s < NumSectors

\* a disk that was never written
ZeroDisk == [s \in Sectors |-> ZeroSector]

\* the value of last before any call
NoCall == [op |-> "none"]

\* the in-memory FileHeader; dataSectors has NumDirect entries
NewHeader ==
  [numBytes |-> 0, numSectors |-> 0, dataSectors |-> Zeros(NumDirect),
   single |-> 0, double |-> 0]

\* the table of a Directory is kept as the cells of its entries
NewDirectory == Zeros(DirectoryFileSize)

\* a DoubleIndirectPointer object whose pointers array holds gs
NewDouble(gs) == [numsSector |-> 0, pointers |-> gs]

\* the values rand() gives for an OpenFileId
MaxIds == 2
Ids == 0 .. (MaxIds - 1)

\* openedTable as a function on the ids.  An id that is a key of the map
\* has open = TRUE and is mapped to an OpenFile pointer: NULL (null = TRUE),
\* or an object with the header it has read and its seekPosition.
Closed == [open |-> FALSE, null |-> TRUE, hdr |-> NewHeader, pos |-> 0]
NullFile == [open |-> TRUE, null |-> TRUE, hdr |-> NewHeader, pos |-> 0]
NoneOpen == [id \in Ids |-> Closed]

\* the threads that call the file system, and a thread that is in no call:
\* pc is where the thread is, path, i and sector are the locals name, i and
\* sector_num of its call, at is the header sector of the directory its
\* last component was looked up in
Threads == {1, 2}
Idle == [pc |-> "idle", path |-> <<>>, i |-> 0, sector |-> -1, at |-> -1]
NoThreads == [t \in Threads |-> Idle]

(***************************************************************************)
(* The machine the code of one call runs on.  Every statement of the code  *)
(* is an operator from machine to machine.                                 *)
(*   disk     the sectors of the disk                                      *)
(*   map      the PersistentBitmap object the call works on                *)
(*   abort    an ASSERT or the disk has aborted the process                *)
(*   sec, file, dir   the cursor: the sector currentDirectoryFile was      *)
(*            opened on, that OpenFile (its header), and the table of      *)
(*            currentDirectory                                             *)
(*   hdr      the FileHeader object the call works on                      *)
(*   dbl      the DoubleIndirectPointer object of AllocateDoubleIndirect   *)
(*   val      what the last FindAndSet returned                            *)
(*   opened   the header of the last OpenFile made                         *)
(*   buf      the bytes the last ReadAt read                               *)
(*   ret, why, sector   what the call returns, why, and the header sector  *)
(*            it worked on                                                 *)
(* and a trace of what the call did:                                       *)
(*   claimed  the data sectors FindAndSet returned, in claim order         *)
(*   blocks   the sectors claimed for indirect blocks                      *)
(*   writes   the sectors WriteSector was called on, in order              *)
(*   none     a FindAndSet of this call returned -1                        *)
(*   uninit   the call has used an uninitialised array entry               *)
(***************************************************************************)
NewCtx(d, m) ==
  [disk |-> d, map |-> m, abort |-> FALSE,
   sec |-> DirectorySector, file |-> NewHeader, dir |-> NewDirectory,
   hdr |-> NewHeader, dbl |-> NewDouble(Zeros(NumIndirect)), val |-> -1,
   opened |-> NewHeader, buf |-> <<>>, ret |-> FALSE, why |-> "", sector |-> -1,
   claimed |-> <<>>, blocks |-> {}, writes |-> <<>>, log |-> <<>>,
   none |-> FALSE,
   uninit |-> FALSE]

Abort(c) == [c EXCEPT !.abort = TRUE]

\* return ret from the call
Result(c, ret, why, sector) == [c EXCEPT !.ret = ret, !.why = why, !.sector = sector]

\* SynchDisk::WriteSector / ReadSector: a sector number off the disk aborts
WriteSector(c, s, cells) ==
  IF c.abort THEN c
  ELSE IF ~InRange(s) THEN Abort([c EXCEPT !.writes = Append(@, s)])
  ELSE [c EXCEPT !.disk[s] = cells, !.writes = Append(@, s),
                 !.log = Append(@, [sector |-> s, cells |-> cells])]

CanRead(c, s) == ~c.abort /\ InRange(s)

ReadSector(c, s) == IF CanRead(c, s) THEN c.disk[s] ELSE ZeroSector

(******************************** Bitmap **********************************)
EmptyMap == [s \in Sectors |-> FALSE]

NumClear(m) == Cardinality({s \in Sectors : ~m[s]})

\* the lowest clear bit, or -1
FindFree(m) ==
  IF \A s \in Sectors : m[s] THEN -1
  ELSE CHOOSE s \in Sectors : ~m[s] /\ \A t \in Sectors : t < s => m[t]

Mark(m, s) == [m EXCEPT ![s] = TRUE]

\* Bitmap::FindAndSet when the lowest clear bit is s
SetFound(c, s) ==
  IF s = -1 THEN [c EXCEPT !.none = TRUE, !.val = -1]
  ELSE [c EXCEPT !.map = Mark(@, s), !.val = s]

\* x = freeMap->FindAndSet(): x is val
FindAndSet(c) ==
  IF c.abort THEN [c EXCEPT !.val = -1] ELSE SetFound(c, FindFree(c.map))

\* Bitmap::Clear: clearing a bit that is off the map or already clear is fatal
Clear(c, s) ==
  IF c.abort THEN c
  ELSE IF ~InRange(s) THEN Abort(c)
  ELSE IF ~c.map[s] THEN Abort(c)
  ELSE [c EXCEPT !.map[s] = FALSE]

\* ASSERT(freeMap->Test(s))
AssertTest(c, s) ==
  IF c.abort THEN c
  ELSE IF ~InRange(s) THEN Abort(c)
  ELSE IF ~c.map[s] THEN Abort(c)
  ELSE c

(****************************** FileHeader ********************************)
\* the header as the cells of its sector, and back (FetchFrom / WriteBack
\* copy the object to and from the sector)
HdrCells(hd) ==
  <<hd.numBytes, hd.numSectors>> \o hd.dataSectors \o <<hd.single, hd.double>>

CellsHdr(cells) ==
  [numBytes |-> cells[1], numSectors |-> cells[2],
   dataSectors |-> Slice(cells, 3, NumDirect + 2),
   single |-> cells[NumDirect + 3], double |-> cells[NumDirect + 4]]

\* SingleIndirectPointer / DoubleIndirectPointer: a count and NumIndirect
\* sector numbers
BlockCells(n, arr) == Pad(<<n>> \o arr)

CellsN(cells) == cells[1]

CellsArr(cells) == Slice(cells, 2, NumIndirect + 1)

\* FileHeader::FetchFrom: the header object read
FetchFrom(c, sector) == CellsHdr(ReadSector(c, sector))

\* WriteBack as it would be if the two indirect sector numbers were not
\* part of what is written
WriteBackDirectOnly(c, hd, sector) ==
  WriteSector(c, sector, HdrCells([hd EXCEPT !.single = -1, !.double = -1]))

\* FileHeader::WriteBack
WriteBack(c, hd, sector) == WriteSector(c, sector, HdrCells(hd))

\* ASSERT(x >= 0) on the sector a FindAndSet for data has returned
AssertClaimed(c) ==
  IF c.abort THEN c
  ELSE IF c.val < 0 THEN Abort(c)
  ELSE [c EXCEPT !.claimed = Append(@, c.val)]

\* the claim loops of Allocate: k times  x = freeMap->FindAndSet();
\* ASSERT(x >= 0)
RECURSIVE ClaimData(_, _)
ClaimData(c, k) ==
  IF k <= 0 \/ c.abort THEN c
  ELSE ClaimData(AssertClaimed(FindAndSet(c)), k - 1)

\* the data sectors claimed since 'base' sectors had been claimed
Since(c, base) == SubSeq(c.claimed, base + 1, Len(c.claimed))

\* FindAndSet for an indirect block: the result is not checked by the code
NoteBlock(c) == IF c.val >= 0 THEN [c EXCEPT !.blocks = @ \cup {c.val}] ELSE c

ClaimBlock(c) == NoteBlock(FindAndSet(c))

\* the entries of an indirect block object: those assigned, the rest as
\* they were in the fresh object
Entries(secs, fresh) ==
  [i \in 1 .. NumIndirect |-> IF i <= Len(secs) THEN secs[i] ELSE fresh[i]]

\* how often the loop of AllocateSingleIndirect runs
SingleCount(hd) == Min(NumIndirect, hd.numSectors - NumDirect)

\* AllocateSingleIndirect from WriteSector on: the block is written and the
\* result is FALSE when the block is full
SingleFilled(c, base) ==
  [WriteSector(c, c.hdr.single,
               BlockCells(SingleCount(c.hdr),
                          Entries(Since(c, base), Zeros(NumIndirect))))
     EXCEPT !.ret = (SingleCount(c.hdr) # NumIndirect)]

\* AllocateSingleIndirect from  SingleIndirectSector = FindAndSet()  on
SingleClaimed(c, base) ==
  SingleFilled(ClaimData([c EXCEPT !.hdr.single = c.val], SingleCount(c.hdr)), base)

\* FileHeader::AllocateSingleIndirect
AllocateSingleIndirect(c) == SingleClaimed(ClaimBlock(c), Len(c.claimed))

(***************************************************************************)
(* The loop of AllocateDoubleIndirect; sc is sector_counter, and dbl the   *)
(* double_indirect object, whose pointers start as an uninitialised array. *)
(* ret is FALSE when the loop is left through return FALSE.                *)
(***************************************************************************)
RECURSIVE DoubleLoop(_, _)
RECURSIVE NestedClaimed(_, _, _)
RECURSIVE NestedFilled(_, _, _)
DoubleLoop(c, sc) ==
  IF c.abort \/ ~(sc <= c.hdr.numSectors) THEN [c EXCEPT !.ret = TRUE]
  ELSE NestedClaimed(ClaimBlock(c), sc, Len(c.claimed))

\* the body of the loop from  pointers[numsSector] = FindAndSet()  on
NestedClaimed(c, sc, base) ==
  NestedFilled(ClaimData([c EXCEPT !.dbl.pointers[c.dbl.numsSector + 1] = c.val],
                         Min(NumIndirect, c.hdr.numSectors - sc)),
               sc, base)

\* the body of the loop from  sector_counter += NumIndirect  on
NestedFilled(c, sc, base) ==
  IF c.abort \/ c.dbl.numsSector + 1 >= NumIndirect
  THEN [c EXCEPT !.dbl.numsSector = @ + 1, !.ret = FALSE]
  ELSE DoubleLoop(
         \* the nested block goes to pointers[numsSector] AFTER the
         \* increment: the slot of the next block, not yet assigned
         WriteSector([c EXCEPT !.dbl.numsSector = @ + 1, !.uninit = TRUE],
                     c.dbl.pointers[c.dbl.numsSector + 2],
                     BlockCells(Min(NumIndirect, c.hdr.numSectors - sc),
                                Entries(Since(c, base), Zeros(NumIndirect)))),
         sc + NumIndirect)

\* AllocateDoubleIndirect after the loop
DoubleEnd(c) ==
  IF c.abort \/ ~c.ret THEN [c EXCEPT !.ret = FALSE]
  ELSE [WriteSector(c, c.hdr.double, BlockCells(c.dbl.numsSector, c.dbl.pointers))
          EXCEPT !.ret = TRUE]

\* AllocateDoubleIndirect from  DoubleIndirectSector = FindAndSet()  on
DoubleClaimed(c, gs) ==
  DoubleEnd(DoubleLoop([c EXCEPT !.hdr.double = c.val, !.dbl = NewDouble(gs)],
                       NumIndirect + NumDirect))

\* FileHeader::AllocateDoubleIndirect; gs is what the uninitialised pointers
\* array of the new DoubleIndirectPointer holds
AllocateDoubleIndirect(c, gs) == DoubleClaimed(ClaimBlock(c), gs)

\* Allocate: numBytes, numSectors and the two indirect sectors are set
Sized(c, fileSize) ==
  [c EXCEPT !.hdr.numBytes = fileSize,
            !.hdr.numSectors = divRoundUp(fileSize, SectorSize),
            !.hdr.single = -1, !.hdr.double = -1]

\* Allocate after AllocateSingleIndirect
SingleDone(c, gs) == IF c.abort \/ c.ret THEN c ELSE AllocateDoubleIndirect(c, gs)

\* Allocate after the loop over the direct pointers
DirectDone(c, gs) ==
  IF c.abort THEN [c EXCEPT !.ret = FALSE]
  ELSE IF c.hdr.numSectors <= NumDirect THEN [c EXCEPT !.ret = TRUE]
  ELSE SingleDone(AllocateSingleIndirect(c), gs)

\* the loop over the direct pointers has filled dataSectors
DirectClaimed(c, gs, base) ==
  DirectDone([c EXCEPT !.hdr.dataSectors =
                [i \in 1 .. NumDirect |->
                   IF i <= Len(Since(c, base)) THEN Since(c, base)[i] ELSE @[i]]],
             gs)

\* Allocate as it would be without the test of NumClear
AllocateUnchecked(c, fileSize, gs) ==
  DirectClaimed(ClaimData(Sized(c, fileSize),
                          Min(NumDirect, divRoundUp(fileSize, SectorSize))),
                gs, Len(c.claimed))

\* FileHeader::Allocate on the header object hdr
Allocate(c, fileSize, gs) ==
  IF NumClear(c.map) < divRoundUp(fileSize, SectorSize)
  THEN [Sized(c, fileSize) EXCEPT !.ret = FALSE]
  ELSE DirectClaimed(ClaimData(Sized(c, fileSize),
                               Min(NumDirect, divRoundUp(fileSize, SectorSize))),
                     gs, Len(c.claimed))

GarbageArrays == {g \in [1 .. NumIndirect -> Garbage] : g[1] = 0}

NoGarbage == Zeros(NumIndirect)

\* ASSERT(freeMap->Test(s)); freeMap->Clear(s), for 'left' entries of arr,
\* from entry i in steps of 'step' (+1 or -1)
RECURSIVE ClearEntries(_, _, _, _, _)
ClearEntries(c, arr, i, step, left) ==
  IF c.abort \/ left <= 0 THEN c
  ELSE IF i < 1 \/ i > Len(arr) THEN Abort(c)
  ELSE ClearEntries(Clear(AssertTest(c, arr[i]), arr[i]), arr, i + step, step, left - 1)

\* the data sectors of the single-indirect block read as 'cells' are freed,
\* last entry first
FreeBlock(c, cells) ==
  IF CellsN(cells) > NumIndirect THEN Abort(c)
  ELSE ClearEntries(c, CellsArr(cells), CellsN(cells), -1, CellsN(cells))

\* one single-indirect block at 'sector' is read and its data sectors freed
FreeSingle(c, sector) ==
  IF ~CanRead(c, sector) THEN Abort(c) ELSE FreeBlock(c, ReadSector(c, sector))

RECURSIVE FreeNested(_, _, _)
FreeNested(c, ptrs, i) ==
  IF c.abort \/ i < 1 THEN c
  ELSE FreeNested(Clear(AssertTest(FreeSingle(c, ptrs[i]), ptrs[i]), ptrs[i]),
                  ptrs, i - 1)

\* Deallocate: if (SingleIndirectSector != -1) { .. }
FreeSingleTier(c) ==
  IF c.hdr.single = -1 THEN c
  ELSE Clear(AssertTest(FreeSingle(c, c.hdr.single), c.hdr.single), c.hdr.single)

\* the nested blocks of the double-indirect block read as 'cells' are freed,
\* last first, and then the block
FreeDoubleBlock(c, cells) ==
  IF CellsN(cells) > NumIndirect THEN Abort(c)
  ELSE Clear(AssertTest(FreeNested(c, CellsArr(cells), CellsN(cells)), c.hdr.double),
             c.hdr.double)

\* Deallocate: if (DoubleIndirectSector != -1) { .. }
FreeDoubleTier(c) ==
  IF c.hdr.double = -1 THEN c
  ELSE IF ~CanRead(c, c.hdr.double) THEN Abort(c)
  ELSE FreeDoubleBlock(c, ReadSector(c, c.hdr.double))

\* both indirect sectors of the header are -1 when Deallocate returns
Freed(c) == IF c.abort THEN c ELSE [c EXCEPT !.hdr.single = -1, !.hdr.double = -1]

\* FileHeader::Deallocate on the header object hdr
Deallocate(c) ==
  Freed(FreeDoubleTier(FreeSingleTier(
    ClearEntries(c, c.hdr.dataSectors, 1, 1, Min(c.hdr.numSectors, NumDirect)))))

\* FileHeader::ByteToSector: ok is FALSE when the disk aborts on a sector
\* number that is off the disk, or an index is off its array
ByteToSector(d, hd, offset) ==
  LET k == offset \div SectorSize
  IN IF k < NumDirect THEN [ok |-> TRUE, val |-> hd.dataSectors[k + 1]]
     ELSE IF k < NumIndirect + NumDirect
     THEN IF ~InRange(hd.single) THEN [ok |-> FALSE, val |-> -1]
          ELSE [ok |-> TRUE, val |-> CellsArr(d[hd.single])[k - NumDirect + 1]]
     ELSE IF ~InRange(hd.double) THEN [ok |-> FALSE, val |-> -1]
          ELSE LET o == (k - NumDirect - NumIndirect) \div NumIndirect
                   i == (k - NumDirect - NumIndirect) % NumIndirect
               IN IF o >= NumIndirect THEN [ok |-> FALSE, val |-> -1]
                  ELSE LET index == CellsArr(d[hd.double])[o + 1]
                       IN IF ~InRange(index) THEN [ok |-> FALSE, val |-> -1]
                          ELSE [ok |-> TRUE, val |-> CellsArr(d[index])[i + 1]]

FileLength(hd) == hd.numBytes

(******************************** OpenFile ********************************)
\* new OpenFile(sector): the object is the header read from the sector
\* (seekPosition is not used by the file system itself)
OpenFile(c, sector) ==
  [(IF CanRead(c, sector) THEN c ELSE Abort(c)) EXCEPT !.opened = FetchFrom(c, sector)]

\* how many of 'len' bytes from position 0 lie inside the file
Inside(hd, len) ==
  IF len <= 0 \/ FileLength(hd) <= 0 THEN 0 ELSE Min(len, FileLength(hd))

\* the sectors ByteToSector gives for the first 'count' bytes of a file
SectorsOf(d, hd, count) ==
  [i \in 1 .. divRoundUp(count, SectorSize) |-> ByteToSector(d, hd, (i - 1) * SectorSize)]

\* ReadAt when the sectors of the bytes asked for are secs
ReadFrom(c, secs, count) ==
  IF ~c.abort /\ \A i \in 1 .. Len(secs) : secs[i].ok /\ InRange(secs[i].val)
  THEN [c EXCEPT !.buf = [q \in 1 .. count |->
                            c.disk[secs[((q - 1) \div SectorSize) + 1].val]
                                  [((q - 1) % SectorSize) + 1]]]
  ELSE [Abort(c) EXCEPT !.buf = <<>>]

\* OpenFile::ReadAt(into, len, 0): the bytes read, sector by sector through
\* ByteToSector; fewer than len when the file is shorter
ReadAt(c, hd, len) ==
  ReadFrom(c, SectorsOf(c.disk, hd, Inside(hd, len)), Inside(hd, len))

\* WriteAt: sector i of the file is on disk sector b.val
WriteTo(c, b, cells, count, i) ==
  IF ~b.ok \/ ~InRange(b.val) THEN Abort(c)
  ELSE WriteSector(c, b.val,
                   [q \in 1 .. SectorSize |->
                      IF (i - 1) * SectorSize + q <= count
                      THEN cells[(i - 1) * SectorSize + q]
                      ELSE c.disk[b.val][q]])

\* OpenFile::WriteAt(from, Len(cells), 0), sector i (from 1) onwards: the
\* bytes inside the file are written, the rest of the last sector is kept
RECURSIVE WriteSectors(_, _, _, _, _)
WriteSectors(c, hd, cells, count, i) ==
  IF c.abort \/ (i - 1) * SectorSize >= count THEN c
  ELSE WriteSectors(
         WriteTo(c, ByteToSector(c.disk, hd, (i - 1) * SectorSize), cells, count, i),
         hd, cells, count, i + 1)

WriteAt(c, hd, cells) == WriteSectors(c, hd, cells, Inside(hd, Len(cells)), 1)

\* the object 'old' after the bytes 'cells' were read over its start
Overlay(old, cells) ==
  [q \in 1 .. Len(old) |-> IF q <= Len(cells) THEN cells[q] ELSE old[q]]

(**************************** PersistentBitmap ****************************)
MapCells(m) == [q \in 1 .. NumSectors |-> IF m[q - 1] THEN 1 ELSE 0]

\* Bitmap::Test reads one bit of a word: a cell that holds something other
\* than a bit is read by its lowest bit
CellsMap(cells) == [s \in Sectors |-> cells[s + 1] % 2 = 1]

\* the bits of a new Bitmap are clear; the bytes read overwrite them
MapRead(c) == [c EXCEPT !.map = CellsMap(Overlay(Zeros(NumSectors), c.buf))]

\* new PersistentBitmap(file, NumSectors)
LoadBitmap(c, file) == MapRead(ReadAt(c, file, FreeMapFileSize))

\* freeMap->WriteBack(file)
SaveBitmap(c, file) == WriteAt(c, file, Slice(MapCells(c.map), 1, FreeMapFileSize))

(******************************* Directory ********************************)
\* the cells of an entry: inUse, sector, kind, name
InUse(tbl, i) == tbl[EntryCells * i + 1] # 0
EntrySector(tbl, i) == tbl[EntryCells * i + 2]
EntryKind(tbl, i) == tbl[EntryCells * i + 3]
EntryName(tbl, i) == tbl[EntryCells * i + 4]

Slots == 0 .. (NumDirEntries - 1)

\* a lookup that finds no name
FindIndexNone(tbl, name) == Min(-1, Len(tbl))

FindIndex(tbl, name) ==
  IF \E i \in Slots : InUse(tbl, i) /\ EntryName(tbl, i) = name
  THEN CHOOSE i \in Slots :
         /\ InUse(tbl, i) /\ EntryName(tbl, i) = name
         /\ \A j \in Slots : (InUse(tbl, j) /\ EntryName(tbl, j) = name) => i <= j
  ELSE -1

Find(tbl, name) ==
  IF FindIndex(tbl, name) = -1 THEN -1 ELSE EntrySector(tbl, FindIndex(tbl, name))

\* the table with slot i filled
Filled(tbl, i, name, sector, kind) ==
  [q \in 1 .. Len(tbl) |->
     IF q = EntryCells * i + 1 THEN 1
     ELSE IF q = EntryCells * i + 2 THEN sector
     ELSE IF q = EntryCells * i + 3 THEN kind
     ELSE IF q = EntryCells * i + 4 THEN name
     ELSE tbl[q]]

\* Directory::Add: the table and whether the name was added
Add(tbl, name, sector, kind) ==
  IF FindIndex(tbl, name) # -1 THEN [tbl |-> tbl, ret |-> FALSE]
  ELSE IF \A i \in Slots : InUse(tbl, i) THEN [tbl |-> tbl, ret |-> FALSE]
  ELSE [tbl |-> Filled(tbl,
                       CHOOSE i \in Slots :
                         ~InUse(tbl, i) /\ \A j \in Slots : j < i => InUse(tbl, j),
                       name, sector, kind),
        ret |-> TRUE]

\* Directory::Remove
DirRemove(tbl, name) ==
  IF FindIndex(tbl, name) = -1 THEN [tbl |-> tbl, ret |-> FALSE]
  ELSE [tbl |-> [tbl EXCEPT ![EntryCells * FindIndex(tbl, name) + 1] = 0], ret |-> TRUE]

\* the bytes read overwrite the start of the table of currentDirectory
TableRead(c) == [c EXCEPT !.dir = Overlay(@, c.buf)]

\* currentDirectory->FetchFrom(file)
DirFetchFrom(c, file) == TableRead(ReadAt(c, file, DirectoryFileSize))

\* directory->WriteBack(file) for a Directory whose table is tbl
DirWriteBack(c, tbl, file) == WriteAt(c, file, tbl)

(***************************** path strings *******************************)
\* a string is a sequence of characters; '/' is 0 and the letters are 1, 2
Slash == 0
Letters == {1, 2}

\* the bytes of a string as one cell: no two strings share a code, and the
\* empty string is the zero cell
RECURSIVE StrCode(_)
StrCode(str) ==
  IF str = <<>> THEN 0
  ELSE StrCode(SubSeq(str, 1, Len(str) - 1)) * (Cardinality(Letters) + 2)
         + str[Len(str)] + 1

\* FileSystem::splitPath: the tokens strtok cuts at "/", empty ones skipped
RECURSIVE SplitFrom(_, _, _)
SplitFrom(path, i, cur) ==
  IF i > Len(path) THEN (IF cur = <<>> THEN <<>> ELSE <<cur>>)
  ELSE IF path[i] = Slash
       THEN (IF cur = <<>> THEN <<>> ELSE <<cur>>) \o SplitFrom(path, i + 1, <<>>)
       ELSE SplitFrom(path, i + 1, Append(cur, path[i]))

splitPath(path) == SplitFrom(path, 1, <<>>)

\* dir_arr[count - 1], the last token of a path
LastName(dir_arr) == StrCode(dir_arr[Len(dir_arr)])

(******************************* FileSystem *******************************)
\* the cursor is moved to the file just opened on 'sector': a new
\* Directory is made and fetched from it
Entered(c, sector) ==
  DirFetchFrom([c EXCEPT !.sec = sector, !.file = c.opened, !.dir = NewDirectory],
               c.opened)

\* FileSystem::changeToRightDir over arr[i..len]; ret is its result
RECURSIVE Walk(_, _, _, _)
RECURSIVE Step(_, _, _, _, _)
Walk(c, arr, i, len) ==
  IF c.abort THEN [c EXCEPT !.ret = FALSE]
  ELSE IF i > len THEN [c EXCEPT !.ret = TRUE]
  ELSE Step(c, arr, i, len, Find(c.dir, StrCode(arr[i])))

\* the body of the loop, after  sector_num = currentDirectory->Find(arr[i])
Step(c, arr, i, len, sector_num) ==
  IF sector_num = -1 THEN [c EXCEPT !.ret = FALSE]
  ELSE Walk(Entered(OpenFile(DirWriteBack(c, c.dir, c.file), sector_num), sector_num),
            arr, i + 1, len)

changeToRightDir(c, arr, len) == Walk(c, arr, 1, len)

\* FileSystem::resetRootDir
resetRootDir(c) == Entered(OpenFile(c, DirectorySector), DirectorySector)

\* currentDirectory->FetchFrom(currentDirectoryFile)
Refetch(c) == DirFetchFrom(c, c.file)

\* createDir: the new, empty Directory is written to the file just opened
DirOpened(c) == DirWriteBack(c, NewDirectory, c.opened)

NewDirWritten(c, kind) == IF kind = IS_DIR THEN DirOpened(OpenFile(c, c.sector)) ELSE c

\* the call returns what the flush has left
Flushed(c) == Result(c, ~c.abort, IF c.abort THEN "abort" ELSE "ok", c.sector)

\* the flush of Create as it would be with the bitmap written first
AllocatedMapFirst(c, mapFile, kind) ==
  IF c.abort THEN Result(c, FALSE, "allocabort", c.sector)
  ELSE IF ~c.ret THEN Result(c, FALSE, "nospace", c.sector)
  ELSE Flushed(DirWriteBack(NewDirWritten(WriteBack(SaveBitmap(c, mapFile),
                                                    c.hdr, c.sector),
                                          kind),
                            c.dir, c.file))

\* Create / createDir after Allocate: on success the header, the directory
\* and the bitmap are flushed
Allocated(c, mapFile, kind) ==
  IF c.abort THEN Result(c, FALSE, "allocabort", c.sector)
  ELSE IF ~c.ret THEN Result(c, FALSE, "nospace", c.sector)
  ELSE Flushed(SaveBitmap(
                 DirWriteBack(NewDirWritten(WriteBack(c, c.hdr, c.sector), kind),
                              c.dir, c.file),
                 mapFile))

\* Create / createDir after  sector = freeMap->FindAndSet()
HeaderClaimed(c, mapFile, name, kind, size, gs) ==
  IF c.abort THEN Result(c, FALSE, "abort", -1)
  ELSE IF c.val = -1 THEN Result(c, FALSE, "nohdr", -1)
  ELSE IF ~Add(c.dir, name, c.val, kind).ret THEN Result(c, FALSE, "dirfull", c.val)
  ELSE Allocated(Allocate([c EXCEPT !.dir = Add(@, name, c.val, kind).tbl,
                                    !.sector = c.val, !.hdr = NewHeader],
                          size, gs),
                 mapFile, kind)

\* the part Create and createDir share, from  new PersistentBitmap  to
\* delete freeMap : the name is looked up by the caller; kind and size differ
AddFile(c, mapFile, name, kind, size, gs) ==
  HeaderClaimed(FindAndSet(LoadBitmap(c, mapFile)), mapFile, name, kind, size, gs)

\* Create after  currentDirectory->FetchFrom(currentDirectoryFile)
CreateLooked(c, mapFile, file_name, initialSize, gs) ==
  IF c.abort THEN Result(c, FALSE, "abort", -1)
  ELSE IF Find(c.dir, file_name) # -1
  THEN Result(resetRootDir(c), FALSE, "exists", -1)
  ELSE resetRootDir(AddFile(c, mapFile, file_name, IS_FILE, initialSize, gs))

\* Create after  ASSERT(changeToRightDir(dir_arr, count - 1) == TRUE)
CreateWalked(c, mapFile, file_name, initialSize, gs) ==
  IF ~c.ret THEN Result(Abort(c), FALSE, IF c.abort THEN "abort" ELSE "walk", -1)
  ELSE CreateLooked(Refetch(c), mapFile, file_name, initialSize, gs)

\* Create as it would be if an existing name were overwritten: the entry of
\* the name is dropped and the file is made anew
OverLooked(c, mapFile, file_name, initialSize, gs) ==
  IF c.abort THEN Result(c, FALSE, "abort", -1)
  ELSE resetRootDir(AddFile([c EXCEPT !.dir = DirRemove(@, file_name).tbl],
                            mapFile, file_name, IS_FILE, initialSize, gs))

OverWalked(c, mapFile, file_name, initialSize, gs) ==
  IF ~c.ret THEN Result(Abort(c), FALSE, IF c.abort THEN "abort" ELSE "walk", -1)
  ELSE OverLooked(Refetch(c), mapFile, file_name, initialSize, gs)

CreateOverExisting(c, mapFile, name, initialSize, gs) ==
  OverWalked(changeToRightDir(c, splitPath(name), Len(splitPath(name)) - 1),
             mapFile, LastName(splitPath(name)), initialSize, gs)

\* FileSystem::Create
Create(c, mapFile, name, initialSize, gs) ==
  CreateWalked(changeToRightDir(c, splitPath(name), Len(splitPath(name)) - 1),
               mapFile, LastName(splitPath(name)), initialSize, gs)

\* Open after the lookup: sector is the header sector of the OpenFile
\* returned, -1 for NULL
OpenFound(c, sector) ==
  Result(resetRootDir(c), ~c.abort, IF c.abort THEN "abort" ELSE "ok", sector)

OpenLooked(c, file_name) ==
  IF c.abort THEN Result(c, FALSE, "abort", -1)
  ELSE IF Find(c.dir, file_name) >= 0
  THEN OpenFound(OpenFile(c, Find(c.dir, file_name)), Find(c.dir, file_name))
  ELSE Result(resetRootDir(c), FALSE, "notfound", -1)

OpenWalked(c, file_name) ==
  IF ~c.ret THEN Result(Abort(c), FALSE, IF c.abort THEN "abort" ELSE "walk", -1)
  ELSE OpenLooked(Refetch(c), file_name)

\* FileSystem::Open
Open(c, name) ==
  OpenWalked(changeToRightDir(c, splitPath(name), Len(splitPath(name)) - 1),
             LastName(splitPath(name)))

\* Remove after the flush
Removed(c) ==
  IF c.abort THEN Result(c, FALSE, "abort", -1)
  ELSE Result(resetRootDir(c), TRUE, "ok", -1)

\* fileHdr->FetchFrom(sector)
HeaderFetched(c, sector) ==
  [(IF CanRead(c, sector) THEN c ELSE Abort(c))
     EXCEPT !.hdr = FetchFrom(c, sector), !.sector = sector]

\* currentDirectory->WriteBack(currentDirectoryFile)
Flush(c) == DirWriteBack(c, c.dir, c.file)

\* freeMap->Clear(sector); currentDirectory->Remove(name)
Unlinked(c, name) == [Clear(c, c.sector) EXCEPT !.dir = DirRemove(@, name).tbl]

\* Remove after the lookup.  The directory is searched for 'name', the
\* whole path string, not for file_name.
RemoveLooked(c, mapFile, name) ==
  IF c.abort THEN Result(c, FALSE, "abort", -1)
  ELSE IF Find(c.dir, name) = -1 THEN Result(c, FALSE, "notfound", -1)
  ELSE Removed(
         Flush(SaveBitmap(
                 Unlinked(Deallocate(LoadBitmap(HeaderFetched(c, Find(c.dir, name)),
                                                mapFile)),
                          name),
                 mapFile)))

RemoveWalked(c, mapFile, name) ==
  IF ~c.ret THEN Result(Abort(c), FALSE, IF c.abort THEN "abort" ELSE "walk", -1)
  ELSE RemoveLooked(Refetch(c), mapFile, name)

\* FileSystem::Remove
Remove(c, mapFile, name) ==
  RemoveWalked(changeToRightDir(c, splitPath(name), Len(splitPath(name)) - 1),
               mapFile, StrCode(name))

\* FileSystem::List: buf is the table that is listed
Listing(c) == [resetRootDir(c) EXCEPT !.buf = c.dir]

List(c, path) ==
  Listing(Refetch(changeToRightDir(c, splitPath(path), Len(splitPath(path)))))

\* createDir after  currentDirectory->FetchFrom(currentDirectoryFile)
DirLooked(c, mapFile, name) ==
  IF c.abort THEN Result(c, FALSE, "abort", -1)
  ELSE IF Find(c.dir, name) # -1 THEN Result(c, FALSE, "exists", -1)
  ELSE AddFile(c, mapFile, name, IS_DIR, DirectoryFileSize, NoGarbage)

\* FileSystem::createDir
createDir(c, mapFile, name) == DirLooked(Refetch(c), mapFile, name)

\* MakeNewDir after createDir: back to the root only on success
DirMade(c) == IF ~c.ret THEN c ELSE resetRootDir(c)

\* MakeNewDir after changeToRightDir
DirWalked(c, mapFile, new_dir_name) ==
  IF ~c.ret THEN Result(c, FALSE, IF c.abort THEN "abort" ELSE "walk", -1)
  ELSE DirMade(createDir(c, mapFile, new_dir_name))

\* MakeNewDir as it would be without the test of name[0]
MakeNewDirAnyPath(c, mapFile, name) ==
  DirWalked(changeToRightDir(c, splitPath(name), Len(splitPath(name)) - 1),
            mapFile, LastName(splitPath(name)))

\* FileSystem::MakeNewDir
MakeNewDir(c, mapFile, name) ==
  IF name[1] # Slash THEN Result(c, FALSE, "noslash", -1)
  ELSE DirWalked(changeToRightDir(c, splitPath(name), Len(splitPath(name)) - 1),
                 mapFile, LastName(splitPath(name)))

(***************************************************************************)
(* FileSystem::FileSystem(format = TRUE) on a disk that holds d.  The      *)
(* value is the machine and the OpenFile of the bitmap file.               *)
(***************************************************************************)
\* the bitmap and the empty directory are written to their files
FormatFlushed(c, mapFile) ==
  [st |-> DirWriteBack(SaveBitmap(c, mapFile), NewDirectory, c.file),
   mapFile |-> mapFile]

\* pwd: the cursor is opened and fetched before the directory is written
FormatOpened(c) == FormatFlushed(resetRootDir(c), c.opened)

\* ASSERT on the two Allocate results; the two headers are written back
FormatAllocated(c, mapHdr, mapRet) ==
  FormatOpened(
    OpenFile(WriteBack(WriteBack(IF mapRet /\ c.ret THEN c ELSE Abort(c),
                                 mapHdr, FreeMapSector),
                       c.hdr, DirectorySector),
             FreeMapSector))

FormatMapped(c) ==
  FormatAllocated(Allocate([c EXCEPT !.hdr = NewHeader], DirectoryFileSize, NoGarbage),
                  c.hdr, c.ret)

\* the constructor as it would be without the two Mark calls
FormatUnmarked(d) ==
  FormatMapped(Allocate(NewCtx(d, EmptyMap), FreeMapFileSize, NoGarbage))

Format(d) ==
  FormatMapped(Allocate(NewCtx(d, Mark(Mark(EmptyMap, FreeMapSector), DirectorySector)),
                        FreeMapFileSize, NoGarbage))

(***************************************************************************)
(* Spec: the file system after  FileSystem(format = TRUE)  on a new disk,  *)
(* and the calls of its operations, one action per call.  After an ASSERT  *)
(* or the disk has aborted the process nothing more happens; the disk      *)
(* keeps what was written up to then.                                      *)
(*   last  what the last call was and what it returned                     *)
(*   live  the paths Create has created and Remove has not removed since   *)
(***************************************************************************)
\* the two letters file names are made of
a == CHOOSE x \in Letters : \A y \in Letters : x <= y
b == CHOOSE x \in Letters : \A y \in Letters : y <= x

\* the path strings the calls are made with
Paths ==
  { <<a>>, <<Slash, a>>, <<Slash, a, Slash, a>>, <<Slash, a, Slash, b>>,
    <<a, Slash, a>>, <<Slash, a, Slash, a, Slash, a>> }

\* the sizes Create is called with: direct pointers only, a single-indirect
\* block, a double-indirect block with one nested block, and with
\* NumIndirect nested blocks
Sizes ==
  { SectorSize, (NumDirect + 1) * SectorSize,
    (NumDirect + NumIndirect + 1) * SectorSize,
    (NumDirect + NumIndirect * NumIndirect) * SectorSize }

\* the free sectors according to the bitmap on disk d
OnDiskFree(d, mapFile) == NumClear(LoadBitmap(NewCtx(d, EmptyMap), mapFile).map)

\* the state the constructor f leaves
InitWith(f) ==
  /\ disk = f.st.disk
  /\ freeMapFile = f.mapFile
  /\ curSector = f.st.sec
  /\ curFile = f.st.file
  /\ curDir = f.st.dir
  /\ aborted = FALSE
  /\ last = NoCall
  /\ nops = 0
  /\ live = {}
  /\ openedTable = NoneOpen
  /\ threads = NoThreads
  /\ h = [map |-> EmptyMap, files |-> <<>>, abort |-> FALSE, steps |-> 0, last |-> NoCall]

Init == InitWith(Format(ZeroDisk))

\* the machine a call starts on
Now == [NewCtx(disk, EmptyMap) EXCEPT !.sec = curSector, !.file = curFile, !.dir = curDir]

\* a run is at most max calls of Create, Remove and MakeNewDir, and then at
\* most one call of Open or List
CanCall(max) == ~aborted /\ nops < max
CanLook(max) == ~aborted /\ nops <= max

\* the state a call leaves: when the process has aborted its memory is gone
Leave(c, rec, lv, n) ==
  /\ disk' = c.disk
  /\ aborted' = c.abort
  /\ curSector' = IF c.abort THEN DirectorySector ELSE c.sec
  /\ curFile' = IF c.abort THEN NewHeader ELSE c.file
  /\ curDir' = IF c.abort THEN NewDirectory ELSE c.dir
  /\ last' = rec
  /\ live' = lv
  /\ nops' = n
  /\ UNCHANGED <<freeMapFile, h, openedTable, threads>>

\* Create has returned on machine r
Created(r, path, size) ==
  Leave(r,
        [op |-> "create", path |-> path, size |-> size, ret |-> r.ret,
         why |-> r.why, sector |-> r.sector, writes |-> r.writes,
         free |-> OnDiskFree(disk, freeMapFile)],
        IF r.ret THEN live \cup {path} ELSE live, nops + 1)

CreateWith(path, size, gs) == Created(Create(Now, freeMapFile, path, size, gs), path, size)

\* the uninitialised array is drawn only when the call reads it
CreateCall(sizes, max) ==
  \E path \in Paths, size \in sizes :
    /\ CanCall(max)
    /\ IF Create(Now, freeMapFile, path, size, NoGarbage).uninit
       THEN \E gs \in GarbageArrays : CreateWith(path, size, gs)
       ELSE CreateWith(path, size, NoGarbage)

\* Open has returned on machine r
Opened(r, path, max) ==
  Leave(r, [op |-> "open", path |-> path, sector |-> r.sector,
            ret |-> (r.sector >= 0 /\ ~r.abort), why |-> r.why],
        live, max + 1)

OpenCall(max) == \E path \in Paths : CanLook(max) /\ Opened(Open(Now, path), path, max)

\* Remove has returned on machine r
RemovedCall(r, path) ==
  Leave(r,
        [op |-> "remove", path |-> path, ret |-> r.ret, why |-> r.why,
         wasLive |-> path \in live,
         immediate |-> (last.op = "create" /\ last.ret /\ last.path = path),
         free |-> IF last.op = "create" THEN last.free ELSE -1],
        IF r.ret THEN {} ELSE live, nops + 1)

RemoveCall(max) ==
  \E path \in Paths : CanCall(max) /\ RemovedCall(Remove(Now, freeMapFile, path), path)

\* List has returned on machine r
Listed(r, path, max) ==
  Leave(r, [op |-> "list", path |-> path, listed |-> r.buf], live, max + 1)

ListCall(max) ==
  \E path \in Paths \cup {<<Slash>>} : CanLook(max) /\ Listed(List(Now, path), path, max)

\* MakeNewDir has returned on machine r
MadeDir(r, path) ==
  Leave(r, [op |-> "mkdir", path |-> path, ret |-> r.ret, why |-> r.why,
            sector |-> r.sector], live, nops + 1)

MakeNewDirCall(max) ==
  \E path \in Paths : CanCall(max) /\ MadeDir(MakeNewDir(Now, freeMapFile, path), path)

DoCreate == CreateCall(Sizes, MaxOps)
DoOpen == OpenCall(MaxOps)
DoRemove == RemoveCall(MaxOps)
DoList == ListCall(MaxOps)
DoMakeNewDir == MakeNewDirCall(MaxOps)

Next == DoCreate \/ DoOpen \/ DoRemove \/ DoList \/ DoMakeNewDir

Spec == Init /\ [][Next]_vars

(***************************************************************************)
(* SpecTree: the same file system and the same calls, followed further:    *)
(* longer runs, with Create called with the one-sector size only.          *)
(***************************************************************************)
\* the calls of a run of SpecTree
MaxTreeOps == 5

TreeSizes == {SectorSize}

TreeCreate == CreateCall(TreeSizes, MaxTreeOps)
TreeOpen == OpenCall(MaxTreeOps)
TreeRemove == RemoveCall(MaxTreeOps)
TreeList == ListCall(MaxTreeOps)
TreeMakeNewDir == MakeNewDirCall(MaxTreeOps)

NextTree == TreeCreate \/ TreeOpen \/ TreeRemove \/ TreeList \/ TreeMakeNewDir

SpecTree == Init /\ [][NextTree]_vars

(***************************************************************************)
(* SpecHdr: file headers on one bitmap and one disk, without the file      *)
(* system around them.  h.map is the PersistentBitmap object, h.files the  *)
(* headers that Allocate has filled so far, each with the trace of its     *)
(* Allocate call, and h.last what the last call did.                       *)
(***************************************************************************)
\* the headers alive at a time, and the calls of a run of SpecHdr
MaxFiles == 2
MaxHdrOps == 3

\* bitmaps the harness starts from: the first j sectors in use, and of the
\* sectors from j on either none or every second one
InitMaps ==
  {[s \in Sectors |-> s < j \/ (e /\ s % 2 = 0)] :
     j \in {0, NumSectors - NumDirect - NumIndirect - 2, NumSectors - NumDirect - 1,
            NumSectors},
     e \in BOOLEAN}

\* file sizes the harness asks for: every sector count up to one past the
\* capacity of the three tiers, and two sizes that end inside a sector
HdrSizes ==
  {n * SectorSize : n \in 0 .. (NumDirect + NumIndirect + NumIndirect * NumIndirect + 1)}
    \cup {1, SectorSize + 1}

InitHdr ==
  /\ disk = ZeroDisk
  /\ h \in {[map |-> m, files |-> <<>>, abort |-> FALSE, steps |-> 0, last |-> NoCall] :
              m \in InitMaps}
  /\ freeMapFile = NewHeader
  /\ curSector = DirectorySector
  /\ curFile = NewHeader
  /\ curDir = Zeros(DirectoryFileSize)
  /\ aborted = FALSE
  /\ last = NoCall
  /\ nops = 0
  /\ live = {}
  /\ openedTable = NoneOpen
  /\ threads = NoThreads

fsVars == <<freeMapFile, curSector, curFile, curDir, aborted, last, nops, live,
            openedTable, threads>>

\* the record kept of a header that Allocate has filled on machine r
FileOf(r) ==
  [hdr |-> r.hdr, claimed |-> r.claimed, blocks |-> r.blocks, pre |-> NumClear(h.map)]

\* Allocate has returned on machine r
HAllocated(r, fileSize) ==
  /\ disk' = r.disk
  /\ h' = [map   |-> r.map,
           steps |-> h.steps + 1,
           files |-> IF r.ret /\ ~r.abort THEN Append(h.files, FileOf(r)) ELSE h.files,
           abort |-> r.abort,
           last  |-> [op |-> "allocate", size |-> fileSize,
                      ret |-> r.ret /\ ~r.abort,
                      precheck |-> NumClear(h.map) >= divRoundUp(fileSize, SectorSize),
                      none |-> r.none, pre |-> NumClear(h.map),
                      writes |-> r.writes,
                      claimedAll |-> {r.claimed[i] : i \in 1 .. Len(r.claimed)}
                                       \cup r.blocks,
                      hdr |-> r.hdr]]

\* hdr->Allocate(freeMap, fileSize) on a fresh header object
HAllocateWith(fileSize, gs) ==
  /\ ~h.abort
  /\ h.steps < MaxHdrOps
  /\ Len(h.files) < MaxFiles
  /\ HAllocated(Allocate(NewCtx(disk, h.map), fileSize, gs), fileSize)
  /\ UNCHANGED fsVars

\* the uninitialised array is drawn only when the call reads it
HAllocate ==
  \E fileSize \in HdrSizes :
    IF Allocate(NewCtx(disk, h.map), fileSize, NoGarbage).uninit
    THEN \E gs \in GarbageArrays : HAllocateWith(fileSize, gs)
    ELSE HAllocateWith(fileSize, NoGarbage)

\* Deallocate has returned on machine r
HDeallocated(r, i) ==
  h' = [map   |-> r.map,
        steps |-> h.steps + 1,
        files |-> [j \in 1 .. (Len(h.files) - 1) |->
                     IF j < i THEN h.files[j] ELSE h.files[j + 1]],
        abort |-> r.abort,
        last  |-> [op |-> "deallocate", pre |-> h.files[i].pre,
                   immediate |-> (h.last.op = "allocate" /\ i = Len(h.files)),
                   hdr |-> r.hdr]]

\* hdr->Deallocate(freeMap) on the i-th header
HDeallocate ==
  \E i \in 1 .. Len(h.files) :
    /\ ~h.abort
    /\ h.steps < MaxHdrOps
    /\ HDeallocated(Deallocate([NewCtx(disk, h.map) EXCEPT !.hdr = h.files[i].hdr]), i)
    /\ disk' = disk
    /\ UNCHANGED fsVars

\* ByteToSector has returned r
HTranslated(r, i, k) ==
  h' = [h EXCEPT !.abort = ~r.ok,
                 !.steps = MaxHdrOps,
                 !.last = [op |-> "byteToSector", file |-> i,
                           offset |-> k * SectorSize, ok |-> r.ok, val |-> r.val]]

\* hdr->ByteToSector(offset) on the i-th header
HByteToSector ==
  \E i \in 1 .. Len(h.files) :
    \E k \in 0 .. (h.files[i].hdr.numSectors - 1) :
      /\ ~h.abort
      /\ h.steps < MaxHdrOps
      /\ HTranslated(ByteToSector(disk, h.files[i].hdr, k * SectorSize), i, k)
      /\ UNCHANGED disk
      /\ UNCHANGED fsVars

NextHdr == HAllocate \/ HDeallocate \/ HByteToSector

SpecHdr == InitHdr /\ [][NextHdr]_vars

(************************ claims on file headers **************************)
LastFile == h.files[Len(h.files)]

\* the sector ByteToSector gives for block k of header record f
BlockSector(f, k) == ByteToSector(disk, f.hdr, k * SectorSize)

\* C1: for a header that Allocate has just filled with success, ByteToSector
\* of k*SectorSize is the sector claimed as the k-th data sector, for every
\* block k of the file, in the direct, single- and double-indirect ranges.
C1_ByteToSectorIsClaimOrder ==
  (h.last.op = "allocate" /\ h.last.ret) =>
    \A k \in 0 .. (LastFile.hdr.numSectors - 1) :
      BlockSector(LastFile, k) = [ok |-> TRUE, val |-> LastFile.claimed[k + 1]]

\* C2: the sectors ByteToSector gives for the blocks of the allocated
\* headers are pairwise distinct, within one file and across the files on
\* the same bitmap.
C2_BlocksDistinct ==
  (h.last.op = "allocate" /\ h.last.ret) =>
    \A i, j \in 1 .. Len(h.files) :
      \A k \in 0 .. (h.files[i].hdr.numSectors - 1) :
        \A l \in 0 .. (h.files[j].hdr.numSectors - 1) :
          (<<i, k>> # <<j, l>>) =>
            /\ BlockSector(h.files[i], k).ok
            /\ BlockSector(h.files[j], l).ok
            /\ BlockSector(h.files[i], k).val # BlockSector(h.files[j], l).val

\* C3: Allocate followed at once by Deallocate on the same header and bitmap
\* gives every claimed sector back: NumClear is what it was before the pair.
C3_AllocateDeallocateRestores ==
  (h.last.op = "deallocate" /\ h.last.immediate) =>
    (~h.abort /\ NumClear(h.map) = h.last.pre)

\* C7: when the pre-check of Allocate passes, every FindAndSet of the call
\* returns a sector: none returns -1, for a data sector (where the ASSERT
\* would fire) or for an indirect block.
C7_PrecheckMakesClaimsSucceed ==
  (h.last.op = "allocate" /\ h.last.precheck) => ~h.last.none

(************************ claims on the file system ***********************)
\* the directory table held by the file whose header is in 'sector' of d
TableAt(d, sector) ==
  DirFetchFrom(OpenFile(NewCtx(d, EmptyMap), sector),
               OpenFile(NewCtx(d, EmptyMap), sector).opened).dir

\* the header sector of the directory that the components arr[i..len] name,
\* looked up from the directory at 'sector' through entries of kind IS_DIR
RECURSIVE Resolve(_, _, _, _, _)
Resolve(d, sector, arr, i, len) ==
  IF i > len THEN sector
  ELSE LET tbl == TableAt(d, sector)
           idx == FindIndex(tbl, StrCode(arr[i]))
       IN IF idx = -1 \/ EntryKind(tbl, idx) # IS_DIR \/ ~InRange(EntrySector(tbl, idx))
          THEN -1
          ELSE Resolve(d, EntrySector(tbl, idx), arr, i + 1, len)

\* the directory a path's leaf belongs to, looked up from the root
ParentOf(d, path) ==
  Resolve(d, DirectorySector, splitPath(path), 1, Len(splitPath(path)) - 1)

LeafOf(path) == LastName(splitPath(path))

\* the sectors a file of n data sectors takes with its header: the data, the
\* header, and the indirect blocks of the tiers it reaches
SectorsNeeded(n) ==
  n + 1 + (IF n <= NumDirect THEN 0
           ELSE IF n <= NumDirect + NumIndirect THEN 1
           ELSE 2 + divRoundUp(n - NumDirect - NumIndirect, NumIndirect))

\* C4: after every call of Create, Open, Remove, List and MakeNewDir that
\* returns, with success or with failure, the cursor is the root directory:
\* currentDirectoryFile is the file of sector DirectorySector.
C4_CursorAtRootBetweenCalls ==
  (last.op # "none" /\ ~aborted) => curSector = DirectorySector

\* C5: a Create that fails because the name exists, no sector is free for
\* the header, the directory is full or Allocate fails leaves every sector
\* of the disk as it was.
C5_FailedCreateLeavesDisk ==
  [][(last'.op = "create" /\ ~last'.ret
        /\ last'.why \in {"exists", "nohdr", "dirfull", "nospace"})
       => disk' = disk]_vars

\* what Create(path) finds before it claims anything: the machine after
\* changeToRightDir and the FetchFrom that follows it
Resolved(path) ==
  Refetch(changeToRightDir(Now, splitPath(path), Len(splitPath(path)) - 1))

C8_OutOfSpaceReturnsFalse ==
  (last.op = "create" /\ last.why \in {"nohdr", "allocabort", "nospace", "ok"}
     /\ SectorsNeeded(divRoundUp(last.size, SectorSize)) > last.free)
    => (~aborted /\ ~last.ret)

\* C9: Remove of a path that Create made and that has not been removed since
\* returns TRUE, and when it follows the Create at once the free count of the
\* bitmap on disk is what it was before the Create.
C9_RemoveUndoesCreate ==
  (last.op = "remove" /\ last.wasLive) =>
    /\ last.ret
    /\ last.immediate => OnDiskFree(disk, freeMapFile) = last.free

\* C10: a successful Create on a path of several components whose
\* directories all exist puts the leaf, with the header sector it claimed,
\* into the directory those components name from the root, and leaves the
\* entries of the root as they were.
C10_CreateInsertsInNamedParent ==
  [][(last'.op = "create" /\ last'.ret /\ Len(splitPath(last'.path)) > 1
        /\ ParentOf(disk, last'.path) # -1)
       => /\ Find(TableAt(disk', ParentOf(disk, last'.path)), LeafOf(last'.path))
               = last'.sector
          /\ TableAt(disk', DirectorySector) = TableAt(disk, DirectorySector)]_vars

\* some component arr[i..len], looked up from the directory at 'sector'
\* through entries of kind IS_DIR, is the name of no entry
RECURSIVE NoSuchComponent(_, _, _, _, _)
NoSuchComponent(d, sector, arr, i, len) ==
  IF i > len THEN FALSE
  ELSE IF FindIndex(TableAt(d, sector), StrCode(arr[i])) = -1 THEN TRUE
  ELSE IF EntryKind(TableAt(d, sector), FindIndex(TableAt(d, sector), StrCode(arr[i])))
            # IS_DIR
          \/ ~InRange(Find(TableAt(d, sector), StrCode(arr[i])))
  THEN FALSE
  ELSE NoSuchComponent(d, Find(TableAt(d, sector), StrCode(arr[i])), arr, i + 1, len)

\* an intermediate directory of the path does not exist on disk d
MissingDir(d, path) ==
  NoSuchComponent(d, DirectorySector, splitPath(path), 1, Len(splitPath(path)) - 1)

\* C11: Create, Open and Remove on a path one of whose intermediate
\* directories does not exist return failure (FALSE / NULL) to the caller and
\* do not abort the process.
C11_MissingDirIsNotFound ==
  [][(last'.op \in {"create", "open", "remove"} /\ MissingDir(disk, last'.path))
       => (~aborted' /\ ~last'.ret)]_vars

(***************************************************************************)
(* SpecIds: the formatted volume with the calls on open-file identifiers:  *)
(* OpenAFile, WriteAFile, ReadAFile and CloseAFile, and Create to have     *)
(* files to open.  openedTable is the map from identifiers to OpenFiles.   *)
(***************************************************************************)
\* the calls of a run of SpecIds
MaxIdOps == 4

\* the sizes WriteAFile and ReadAFile are called with
IoSizes == {1, SectorSize + 1}

\* the bytes WriteAFile is called with
Buffer(size) == [q \in 1 .. size |-> 1]

\* the OpenFile pointer Open has returned on machine r: NULL, or a new
\* OpenFile on the header sector, at position 0
Handle(r) ==
  IF r.sector < 0 THEN NullFile
  ELSE [open |-> TRUE, null |-> FALSE, hdr |-> FetchFrom(r, r.sector), pos |-> 0]

\* OpenAFile as it would be without the loop: the first rand() is taken
AnyId(tbl, id) == id \in Ids

\* OpenAFile: do { id = rand(); } while (openedTable.find(id) != end) leaves
\* the loop with an id that is no key of the map
FreshId(tbl, id) == ~tbl[id].open

\* the state a call on identifiers leaves
LeaveId(c, rec, tbl) ==
  /\ disk' = c.disk
  /\ aborted' = c.abort
  /\ curSector' = IF c.abort THEN DirectorySector ELSE c.sec
  /\ curFile' = IF c.abort THEN NewHeader ELSE c.file
  /\ curDir' = IF c.abort THEN NewDirectory ELSE c.dir
  /\ last' = rec
  /\ openedTable' = IF c.abort THEN NoneOpen ELSE tbl
  /\ nops' = nops + 1
  /\ UNCHANGED <<freeMapFile, h, live, threads>>

\* OpenAFile after  one_file = Open(name)  on machine r, with id drawn
OpenedAFile(r, path, id) ==
  LeaveId(r, [op |-> "openAFile", path |-> path, found |-> (r.sector >= 0),
              ret |-> id],
          [openedTable EXCEPT ![id] = Handle(r)])

\* FileSystem::OpenAFile
DoOpenAFile ==
  \E path \in Paths, id \in Ids :
    /\ CanCall(MaxIdOps)
    /\ FreshId(openedTable, id)
    /\ OpenedAFile(Open(Now, path), path, id)

\* how many of 'size' bytes from the position of OpenFile f lie in the file
Clipped(f, size) ==
  IF size <= 0 \/ f.pos >= FileLength(f.hdr) THEN 0
  ELSE Min(size, FileLength(f.hdr) - f.pos)

\* the bytes of a file after n bytes of 'from' were written at position pos
Patched(old, pos, from, n) ==
  [q \in 1 .. Len(old) |-> IF q > pos /\ q <= pos + n THEN from[q - pos] ELSE old[q]]

\* OpenFile::Write on machine c, which has read the file into buf: the
\* bytes are written at seekPosition
Written(c, f, size) ==
  WriteAt(c, f.hdr, Patched(c.buf, f.pos, Buffer(size), Clipped(f, size)))

\* an OpenFile call has returned n on machine c
IoDone(c, op, id, size, n) ==
  LeaveId(c, [op |-> op, id |-> id, size |-> size, ret |-> n, wasOpen |-> TRUE],
          [openedTable EXCEPT ![id].pos = @ + n])

\* a call on an id that is no key, as it would be if the id were looked up
\* with openedTable[id], which adds the key
NotOpenAddsKey(op, id, size) ==
  LeaveId(Now, [op |-> op, id |-> id, size |-> size, ret |-> 0, wasOpen |-> FALSE],
          [openedTable EXCEPT ![id] = NullFile])

\* a call on an id that is no key of the map returns 0
NotOpen(op, id, size) ==
  LeaveId(Now, [op |-> op, id |-> id, size |-> size, ret |-> 0, wasOpen |-> FALSE],
          openedTable)

\* a call through a NULL OpenFile pointer ends the process
ThroughNull(op, id, size) ==
  LeaveId(Abort(Now), [op |-> op, id |-> id, size |-> size, ret |-> 0, wasOpen |-> TRUE],
          openedTable)

\* FileSystem::WriteAFile
DoWriteAFile ==
  \E id \in Ids, size \in IoSizes :
    /\ CanCall(MaxIdOps)
    /\ IF ~openedTable[id].open THEN NotOpen("writeAFile", id, size)
       ELSE IF openedTable[id].null THEN ThroughNull("writeAFile", id, size)
       ELSE IoDone(Written(ReadAt(Now, openedTable[id].hdr,
                                  FileLength(openedTable[id].hdr)),
                           openedTable[id], size),
                   "writeAFile", id, size, Clipped(openedTable[id], size))

\* FileSystem::ReadAFile
DoReadAFile ==
  \E id \in Ids, size \in IoSizes :
    /\ CanCall(MaxIdOps)
    /\ IF ~openedTable[id].open THEN NotOpen("readAFile", id, size)
       ELSE IF openedTable[id].null THEN ThroughNull("readAFile", id, size)
       ELSE IoDone(ReadAt(Now, openedTable[id].hdr, FileLength(openedTable[id].hdr)),
                   "readAFile", id, size, Clipped(openedTable[id], size))

\* FileSystem::CloseAFile
DoCloseAFile ==
  \E id \in Ids :
    /\ CanCall(MaxIdOps)
    /\ IF openedTable[id].open
       THEN LeaveId(Now, [op |-> "closeAFile", id |-> id, size |-> 0, ret |-> 1,
                          wasOpen |-> TRUE],
                    [openedTable EXCEPT ![id] = Closed])
       ELSE NotOpen("closeAFile", id, 0)

IdCreate == CreateCall(TreeSizes, MaxIdOps)

NextIds == IdCreate \/ DoOpenAFile \/ DoWriteAFile \/ DoReadAFile \/ DoCloseAFile

SpecIds == Init /\ [][NextIds]_vars

(******************** claims on open-file identifiers *********************)
\* the path names no file on disk d: a directory of it or its leaf is missing
NamesNoFile(d, path) ==
  \/ ParentOf(d, path) = -1
  \/ Find(TableAt(d, ParentOf(d, path)), LeafOf(path)) = -1

\* C12: OpenAFile on a path that names no existing file returns -1 and
\* leaves the table of open identifiers as it was.
C12_OpenMissingReturnsMinusOne ==
  [][(last'.op = "openAFile" /\ ~aborted' /\ NamesNoFile(disk, last'.path))
       => (last'.ret = -1 /\ openedTable' = openedTable)]_vars

\* C13: the identifier OpenAFile returns is not open at the moment of the
\* call, and the call leaves what every other identifier is mapped to as it
\* was: no two open files share an identifier and no handle is overwritten.
C13_NewIdIsNotOpen ==
  [][(last'.op = "openAFile" /\ ~aborted')
       => /\ ~openedTable[last'.ret].open
          /\ openedTable'[last'.ret].open
          /\ \A j \in Ids \ {last'.ret} : openedTable'[j] = openedTable[j]]_vars

\* OpenAFile has returned an identifier while another one is open on a file
C13_SecondIdOpened ==
  /\ last.op = "openAFile" /\ ~aborted /\ last.found
  /\ \E j \in Ids \ {last.ret} : openedTable[j].open /\ ~openedTable[j].null

\* C14: CloseAFile on an identifier that is open returns 1 and takes it,
\* and nothing else, out of the table; CloseAFile, ReadAFile and WriteAFile
\* on an identifier that is not open (never opened, or closed since) return
\* 0 and leave the table as it was.
C14_IdUsableUntilClosed ==
  [][/\ (last'.op = "closeAFile" /\ openedTable[last'.id].open)
          => /\ last'.ret = 1
             /\ openedTable' = [openedTable EXCEPT ![last'.id] = Closed]
     /\ (last'.op \in {"closeAFile", "readAFile", "writeAFile"}
           /\ ~openedTable[last'.id].open)
          => (last'.ret = 0 /\ ~aborted' /\ openedTable' = openedTable)]_vars

\* a call on an identifier that is not open has returned 0 while another
\* identifier is open
C14_CallOnClosedId ==
  /\ last.op \in {"closeAFile", "readAFile", "writeAFile"}
  /\ ~last.wasOpen /\ last.ret = 0 /\ ~aborted
  /\ \E j \in Ids \ {last.id} : openedTable[j].open

(********************** claims on the size of a file **********************)
\* the data sectors the three tiers of a header hold
Capacity == NumDirect + NumIndirect + NumIndirect * NumIndirect

\* the sectorCount of the last Allocate
LastCount == divRoundUp(h.last.size, SectorSize)

\* the last call was an Allocate on a bitmap with enough clear sectors for
\* the data and all the indirect blocks of the file
AllocateWithRoom ==
  h.last.op = "allocate" /\ h.last.pre >= SectorsNeeded(LastCount) - 1

\* C15: with enough free sectors Allocate succeeds for every sectorCount up
\* to and including D + I + I*I, and fails for every sectorCount above it.
C15_SucceedsUpToCapacity ==
  AllocateWithRoom => (h.last.ret <=> LastCount <= Capacity)

\* the indirect blocks the last Allocate has claimed: the sectors it claimed
\* that are not data sectors
LastBlocks == Cardinality(h.last.claimedAll) - LastCount

\* C16: with room on the bitmap, Allocate of exactly D sectors succeeds with
\* no indirect block (both indirect pointers stay -1); of D + 1 sectors with
\* one single-indirect block and no double-indirect block; of D + I + 1
\* sectors with the single-indirect block, one double-indirect block and one
\* nested block.
C16_TierBoundaries ==
  AllocateWithRoom =>
    /\ LastCount = NumDirect =>
          /\ h.last.ret /\ LastBlocks = 0
          /\ h.last.hdr.single = -1 /\ h.last.hdr.double = -1
    /\ LastCount = NumDirect + 1 =>
          /\ h.last.ret /\ LastBlocks = 1
          /\ h.last.hdr.single # -1 /\ h.last.hdr.double = -1
    /\ LastCount = NumDirect + NumIndirect + 1 =>
          /\ h.last.ret /\ LastBlocks = 3
          /\ h.last.hdr.single # -1 /\ h.last.hdr.double # -1

\* C17: with room on the bitmap, Allocate of more than D and at most D + I
\* sectors (D + I included) succeeds on the single-indirect path: the one
\* indirect block claimed is the single-indirect block, and no double-
\* indirect or nested block is claimed.
C17_SingleTierCoversItsRange ==
  (AllocateWithRoom /\ LastCount > NumDirect /\ LastCount <= NumDirect + NumIndirect)
    => /\ h.last.ret
       /\ LastBlocks = 1
       /\ h.last.hdr.single # -1 /\ h.last.hdr.double = -1

(************************ claims on the commit of Create ******************)
\* the disk sectors that hold the first 'len' bytes of the file of header hd
DataSectors(d, hd, len) ==
  [i \in 1 .. Len(SectorsOf(d, hd, Inside(hd, len))) |->
     SectorsOf(d, hd, Inside(hd, len))[i].val]

\* the writes that commit a Create of 'path' with header sector 'sector',
\* from the state before the call: the header, the sectors of the parent
\* directory's file, the sectors of the bitmap's file
CommitWrites(path, sector) ==
  <<sector>> \o DataSectors(disk, Resolved(path).file, DirectoryFileSize)
             \o DataSectors(disk, freeMapFile, FreeMapFileSize)

\* the trace w of writes ends with the writes e, and none of the sectors of
\* e is written before them
EndsWithOnly(w, e) ==
  /\ Len(w) >= Len(e)
  /\ SubSeq(w, Len(w) - Len(e) + 1, Len(w)) = e
  /\ \A i \in 1 .. (Len(w) - Len(e)) : \A j \in 1 .. Len(e) : w[i] # e[j]

MaxCrashOps == 3

\* the disk d after the first k writes of the log lg
RECURSIVE CutDisk(_, _, _)
CutDisk(d, lg, k) ==
  IF k = 0 THEN d
  ELSE [CutDisk(d, lg, k - 1) EXCEPT ![lg[k].sector] = lg[k].cells]

\* FileSystem::FileSystem(format = FALSE) on disk d: the cursor is the root
Mounted(d) == resetRootDir(NewCtx(d, EmptyMap))

\* Create on machine r has stopped after k of its writes
Crashed(r, path, size, k) ==
  Leave(Mounted(CutDisk(disk, r.log, k)),
        [op |-> "crash", path |-> path, size |-> size, ret |-> r.ret,
         sector |-> r.sector, cut |-> k, total |-> Len(r.log)],
        live, nops + 1)

CrashWith(r, path, size) ==
  /\ ~r.abort
  /\ \E k \in 0 .. (Len(r.log) - 1) : Crashed(r, path, size, k)

CrashCreate ==
  \E path \in Paths, size \in TreeSizes :
    /\ CanCall(MaxCrashOps)
    /\ CrashWith(Create(Now, freeMapFile, path, size, NoGarbage), path, size)

CrashTreeCreate == CreateCall(TreeSizes, MaxCrashOps)
CrashTreeRemove == RemoveCall(MaxCrashOps)
CrashTreeMakeNewDir == MakeNewDirCall(MaxCrashOps)

NextCrash == CrashCreate \/ CrashTreeCreate \/ CrashTreeRemove \/ CrashTreeMakeNewDir

SpecCrash == Init /\ [][NextCrash]_vars

\* the sectors the valid header in 'sector' of d refers to: itself, its
\* indirect blocks and its data sectors
RefsOfFile(d, sector) ==
  {sector}
    \cup {DataSectors(d, CellsHdr(d[sector]), FileLength(CellsHdr(d[sector])))[i] :
            i \in 1 .. Len(DataSectors(d, CellsHdr(d[sector]),
                                       FileLength(CellsHdr(d[sector]))))}

\* the sectors that the directory entries of d refer to, from the directory
\* in 'sector' down to 'depth' levels
RECURSIVE Referenced(_, _, _)
Referenced(d, sector, depth) ==
  UNION { IF ~InRange(EntrySector(TableAt(d, sector), i)) THEN {}
          ELSE RefsOfFile(d, EntrySector(TableAt(d, sector), i))
                 \cup (IF depth > 0 /\ EntryKind(TableAt(d, sector), i) = IS_DIR
                       THEN Referenced(d, EntrySector(TableAt(d, sector), i), depth - 1)
                       ELSE {})
        : i \in {j \in Slots : InUse(TableAt(d, sector), j)} }

OnDiskMap(d) == LoadBitmap(NewCtx(d, EmptyMap), freeMapFile).map

\* a Create that was going to succeed was cut off before the first write of
\* its bitmap flush
CutBeforeBitmap ==
  /\ last.op = "crash" /\ last.ret
  /\ last.cut <= last.total - Len(DataSectors(disk, freeMapFile, FreeMapFileSize))

\* C19: after a Create is cut off before its bitmap flush, every sector that
\* a directory entry on disk, or the header it points to, refers to is set in
\* the bitmap on disk.
C19_CrashLeavesAtWorstALeak ==
  CutBeforeBitmap
    => \A s \in Referenced(disk, DirectorySector, 2) :
         InRange(s) => OnDiskMap(disk)[s]

(************************ claims on the reserved bits *********************)
\* C20: after formatting and after every Create, MakeNewDir and Remove that
\* returns, bit FreeMapSector and bit DirectorySector of the bitmap on disk
\* are set.
C20_ReservedBitsSet ==
  ~aborted => (OnDiskMap(disk)[FreeMapSector] /\ OnDiskMap(disk)[DirectorySector])

\* files and directories have been created and one has been removed
C20_AfterCreateAndRemove ==
  /\ last.op = "remove" /\ last.ret /\ ~aborted
  /\ \E i \in Slots : InUse(TableAt(disk, DirectorySector), i)

(***************************************************************************)
(* SpecFormat: the constructor is called with format = TRUE on a disk that *)
(* holds an older volume or nothing, and the calls of SpecTree follow.     *)
(***************************************************************************)
MaxFormatOps == 2

\* what the disk can hold before it is formatted: nothing, or an older
\* volume with a file or a directory in its root
OldDisks ==
  { ZeroDisk,
    Create(Format(ZeroDisk).st, Format(ZeroDisk).mapFile, <<a>>, SectorSize,
           NoGarbage).disk,
    MakeNewDir(Format(ZeroDisk).st, Format(ZeroDisk).mapFile, <<Slash, a>>).disk }

InitFormat ==
  /\ disk \in OldDisks
  /\ freeMapFile = NewHeader
  /\ curSector = DirectorySector
  /\ curFile = NewHeader
  /\ curDir = NewDirectory
  /\ aborted = FALSE
  /\ last = [op |-> "unformatted"]
  /\ nops = 0
  /\ live = {}
  /\ openedTable = NoneOpen
  /\ threads = NoThreads
  /\ h = [map |-> EmptyMap, files |-> <<>>, abort |-> FALSE, steps |-> 0, last |-> NoCall]

\* the constructor f has returned
Constructed(f) ==
  /\ disk' = f.st.disk
  /\ freeMapFile' = f.mapFile
  /\ curSector' = f.st.sec
  /\ curFile' = f.st.file
  /\ curDir' = f.st.dir
  /\ aborted' = f.st.abort
  /\ last' = [op |-> "format", writes |-> f.st.writes, claimed |-> f.st.claimed,
              old |-> disk]
  /\ UNCHANGED <<nops, live, openedTable, h, threads>>

FormatCall == last.op = "unformatted" /\ Constructed(Format(disk))

IsFormatted == last.op # "unformatted"

FormatCreate == IsFormatted /\ CreateCall(TreeSizes, MaxFormatOps)
FormatRemove == IsFormatted /\ RemoveCall(MaxFormatOps)
FormatMakeNewDir == IsFormatted /\ MakeNewDirCall(MaxFormatOps)
FormatList == IsFormatted /\ ListCall(MaxFormatOps)

NextFormat ==
  FormatCall \/ FormatCreate \/ FormatRemove \/ FormatMakeNewDir \/ FormatList

SpecFormat == InitFormat /\ [][NextFormat]_vars

(************************* claims on formatting ***************************)
\* C21: formatting claims no data sector at FreeMapSector or DirectorySector,
\* claims the data sectors of the bitmap's file and then those of the root
\* directory's file, writes the two headers to sectors 0 and 1 first, writes
\* the contents of the two files after them, and leaves on disk a bitmap in
\* which the two header sectors and every claimed sector are set.
C21_FormatOrder ==
  last.op = "format" =>
    /\ \A i \in 1 .. Len(last.claimed) :
         last.claimed[i] \notin {FreeMapSector, DirectorySector}
    /\ last.claimed = DataSectors(disk, freeMapFile, FreeMapFileSize)
                        \o DataSectors(disk, curFile, DirectoryFileSize)
    /\ last.writes = <<FreeMapSector, DirectorySector>> \o last.claimed
    /\ freeMapFile = CellsHdr(disk[FreeMapSector])
    /\ curFile = CellsHdr(disk[DirectorySector])
    /\ OnDiskMap(disk)[FreeMapSector] /\ OnDiskMap(disk)[DirectorySector]
    /\ \A i \in 1 .. Len(last.claimed) : OnDiskMap(disk)[last.claimed[i]]

\* a disk that held an older volume has been formatted
C21_FormattedOverOldVolume ==
  /\ last.op = "format" /\ ~aborted
  /\ last.old # ZeroDisk
  /\ Len(last.claimed) = divRoundUp(FreeMapFileSize, SectorSize)
                           + divRoundUp(DirectoryFileSize, SectorSize)

(************************ claims on MakeNewDir ****************************)
\* C22: MakeNewDir with a path that does not start with '/' returns false
\* and changes neither the cursor nor anything on disk (the bitmap and the
\* directories are on disk between calls).
C22_NoSlashRejected ==
  [][(last'.op = "mkdir" /\ last'.path[1] # Slash)
       => /\ ~last'.ret /\ ~aborted'
          /\ disk' = disk
          /\ curSector' = curSector /\ curFile' = curFile /\ curDir' = curDir]_vars

\* MakeNewDir was called without the leading '/' on a volume whose root
\* holds a directory of the name the path starts with
C22_NoSlashOnExistingDir ==
  /\ last.op = "mkdir" /\ last.path[1] # Slash /\ ~last.ret
  /\ Len(splitPath(last.path)) > 1
  /\ ParentOf(disk, last.path) # -1

(************************ claims on Open and List **************************)
\* C23: Open and List leave every sector of the disk as it was: the bitmap,
\* the directories and the headers on disk are the same after the call.
C23_LookupsWriteNothing ==
  [][(last'.op \in {"open", "list"}) => disk' = disk]_vars

(***************************************************************************)
(* SpecRound: the runs of Allocate and Deallocate of SpecHdr, and a header *)
(* that is written to a free sector and fetched from it into a new object. *)
(***************************************************************************)
\* what ByteToSector gives for each data sector of header hd on disk d
Translation(d, hd) ==
  [k \in 0 .. (hd.numSectors - 1) |-> ByteToSector(d, hd, k * SectorSize)]

\* WriteBack(sector) of the i-th header has left machine r;
\* the header is then fetched from the sector
HRoundTripped(r, i, sector) ==
  /\ disk' = r.disk
  /\ h' = [h EXCEPT !.abort = r.abort,
                    !.steps = MaxHdrOps,
                    !.last = [op |-> "roundTrip", file |-> i, sector |-> sector,
                              before |-> Translation(disk, h.files[i].hdr),
                              after |-> Translation(r.disk, FetchFrom(r, sector))]]

\* hdr->WriteBack(sector); fresh->FetchFrom(sector), on a sector that is free
HRoundTrip ==
  \E i \in 1 .. Len(h.files) :
    /\ ~h.abort
    /\ h.steps < MaxHdrOps
    /\ FindFree(h.map) # -1
    /\ HRoundTripped(WriteBack(NewCtx(disk, h.map), h.files[i].hdr, FindFree(h.map)),
                     i, FindFree(h.map))
    /\ UNCHANGED fsVars

NextRound == HAllocate \/ HDeallocate \/ HRoundTrip

SpecRound == InitHdr /\ [][NextRound]_vars

\* C24: a header that Allocate has filled gives, after WriteBack to a sector
\* and FetchFrom of that sector into a new header, the same ByteToSector
\* result for every data sector of the file.
C24_RoundTripKeepsTranslation ==
  h.last.op = "roundTrip" => h.last.after = h.last.before

\* a header with a double-indirect block has made the round trip
C24_RoundTripOfDoubleTier ==
  /\ h.last.op = "roundTrip" /\ ~h.abort
  /\ DOMAIN h.last.before = 0 .. (NumDirect + NumIndirect)
  /\ \A k \in DOMAIN h.last.after : h.last.after[k].ok

(************************ claims on the pre-check *************************)
\* C25: when the bitmap has fewer clear bits than the file has data
\* sectors, Allocate returns FALSE, sets no bit and writes no sector.
C25_FailedPrecheckChangesNothing ==
  [][(h'.last.op = "allocate" /\ ~h'.last.precheck)
       => /\ ~h'.last.ret /\ ~h'.abort
          /\ h'.map = h.map
          /\ h'.last.writes = <<>>
          /\ disk' = disk]_vars

\* the pre-check has failed on a bitmap that still had clear bits
C25_PrecheckFailedWithSomeFree ==
  /\ h.last.op = "allocate" /\ ~h.last.precheck
  /\ h.last.pre > 0 /\ NumClear(h.map) = h.last.pre

(************************ claims on directory names ***********************)
\* the header sectors of the directories of disk d: the directory in 'sector'
\* and those its entries of kind IS_DIR lead to, 'depth' levels down
RECURSIVE DirsFrom(_, _, _)
DirsFrom(d, sector, depth) ==
  {sector}
    \cup (IF depth = 0 THEN {}
          ELSE UNION { DirsFrom(d, EntrySector(TableAt(d, sector), i), depth - 1)
                       : i \in {j \in Slots :
                                  /\ InUse(TableAt(d, sector), j)
                                  /\ EntryKind(TableAt(d, sector), j) = IS_DIR
                                  /\ InRange(EntrySector(TableAt(d, sector), j))} })

NamesDistinct(tbl) ==
  \A i \in Slots, j \in Slots :
    (i # j /\ InUse(tbl, i) /\ InUse(tbl, j)) => EntryName(tbl, i) # EntryName(tbl, j)

\* C26: after every Create, MakeNewDir and Remove that returns, the in-use
\* entries of each directory on disk have pairwise distinct names.
C26_NamesUnique ==
  ~aborted => \A s \in DirsFrom(disk, DirectorySector, 2) :
                 NamesDistinct(TableAt(disk, s))

\* a directory on disk is full: all its entries are in use
C26_FullDirectory ==
  /\ ~aborted /\ last.op \in {"create", "mkdir"} /\ last.ret
  /\ \E s \in DirsFrom(disk, DirectorySector, 2) :
       \A i \in Slots : InUse(TableAt(disk, s), i)

(************************ claims on block writes **************************)
\* C27: every sector that Allocate writes is a sector the same call has
\* claimed from the bitmap; in particular a nested block goes to the sector
\* recorded for it in the double-indirect block.
C27_WritesGoToClaimedSectors ==
  h.last.op = "allocate"
    => \A i \in 1 .. Len(h.last.writes) : h.last.writes[i] \in h.last.claimedAll

(***************************************************************************)
(* SpecPar: two threads call Open on a volume that holds the directories   *)
(* /a and /a/a and the files /a/b and /a/a/a.  FileSystem has no lock, and *)
(* a thread that waits for the disk lets the other run: a call is left at  *)
(* the write of changeToRightDir, currentDirectory->WriteBack, and taken   *)
(* up again after it.  The cursor is the one of the FileSystem object.     *)
(***************************************************************************)
Populated ==
  Create(Create(MakeNewDir(MakeNewDir(Format(ZeroDisk).st, Format(ZeroDisk).mapFile,
                                      <<Slash, a>>),
                           Format(ZeroDisk).mapFile, <<Slash, a, Slash, a>>),
                Format(ZeroDisk).mapFile, <<Slash, a, Slash, b>>, SectorSize, NoGarbage),
         Format(ZeroDisk).mapFile, <<Slash, a, Slash, a, Slash, a>>, SectorSize,
         NoGarbage)

InitPar == InitWith([st |-> Populated, mapFile |-> Format(ZeroDisk).mapFile])

\* thread t has run on machine c up to where it waits or returns, and is th
Yielded(c, t, th) ==
  /\ disk' = c.disk
  /\ aborted' = c.abort
  /\ curSector' = IF c.abort THEN DirectorySector ELSE c.sec
  /\ curFile' = IF c.abort THEN NewHeader ELSE c.file
  /\ curDir' = IF c.abort THEN NewDirectory ELSE c.dir
  /\ threads' = [threads EXCEPT ![t] = th]
  /\ last' = [op |-> "thread", thread |-> t, pc |-> th.pc]
  /\ UNCHANGED <<freeMapFile, h, openedTable, live, nops>>

\* Open after changeToRightDir has returned TRUE with the cursor of c
Returned(c, r, t, path) ==
  Yielded(r, t, [pc |-> "done", path |-> path, i |-> Len(splitPath(path)),
                 sector |-> r.sector, at |-> c.sec])

\* the loop of changeToRightDir at  sector_num = currentDirectory->Find(arr[i])
\* with i (from 1) the component: ASSERT when it is not found, else the
\* write, where the thread waits
Looked(c, t, path, i, sector_num) ==
  IF sector_num = -1
  THEN Yielded(Abort(c), t, [pc |-> "done", path |-> path, i |-> i,
                             sector |-> -1, at |-> -1])
  ELSE Yielded(DirWriteBack(c, c.dir, c.file), t,
               [pc |-> "walking", path |-> path, i |-> i, sector |-> sector_num,
                at |-> -1])

\* Open from the head of the loop of changeToRightDir on
Advance(c, t, path, i) ==
  IF i > Len(splitPath(path)) - 1
  THEN Returned(c, OpenWalked([c EXCEPT !.ret = TRUE], LastName(splitPath(path))),
                t, path)
  ELSE Looked(c, t, path, i, Find(c.dir, StrCode(splitPath(path)[i])))

\* Open as it would start if it went to the root first
StartAtRoot(t, path) == Advance(resetRootDir(Now), t, path, 1)

\* thread t calls Open(path)
Start(t, path) == Advance(Now, t, path, 1)

ThreadOpen ==
  \E t \in Threads, path \in Paths :
    /\ ~aborted
    /\ threads[t].pc = "idle"
    /\ Start(t, path)

\* thread t goes on after the write: the cursor is moved to sector_num
ThreadStep ==
  \E t \in Threads :
    /\ ~aborted
    /\ threads[t].pc = "walking"
    /\ Advance(Entered(OpenFile(Now, threads[t].sector), threads[t].sector),
               t, threads[t].path, threads[t].i + 1)

NextPar == ThreadOpen \/ ThreadStep

SpecPar == InitPar /\ [][NextPar]_vars

\* C28: a call looks its first component up in the cursor directory of the
\* FileSystem object as it is, also while another call is in flight and has
\* moved it: nothing isolates the calls.
C28_CallsShareTheCursor ==
  [][\A t \in Threads :
       (threads[t].pc = "idle" /\ threads'[t].pc = "walking")
         => threads'[t].sector
              = Find(curDir, StrCode(splitPath(threads'[t].path)[1]))]_vars

\* resolution is corrupted: a call has returned after looking its last
\* component up in a directory other than the one its path names, while
\* the other call was in flight
C28_ResolvedInWrongDirectory ==
  /\ ~aborted
  /\ \E t \in Threads, u \in Threads :
       /\ t # u
       /\ threads[t].pc = "done" /\ threads[u].pc = "walking"
       /\ threads[t].at # -1
       /\ threads[t].at # ParentOf(disk, threads[t].path)

(************************ claims on discarded changes *********************)
\* the in-use entries of the directories on disk d: directory, name, sector
EntriesOnDisk(d) ==
  UNION { { <<s, EntryName(TableAt(d, s), i), EntrySector(TableAt(d, s), i)>>
            : i \in {j \in Slots : InUse(TableAt(d, s), j)} }
          : s \in DirsFrom(d, DirectorySector, 2) }

\* C29: an in-use entry appears in a directory on disk only by a Create or a
\* MakeNewDir that returns success: what a failed MakeNewDir has changed in
\* memory is written by no later call.
C29_EntriesComeFromSuccessfulCalls ==
  [][(~aborted' /\ ~(EntriesOnDisk(disk') \subseteq EntriesOnDisk(disk)))
       => (last'.op \in {"create", "mkdir"} /\ last'.ret)]_vars

(************************ claims on the cursor after format ****************)
\* C30: when the constructor has formatted the disk, whatever the disk held
\* before, the cursor's in-memory directory is the root directory as it is
\* on disk, which is empty.
C30_CursorIsTheEmptyRoot ==
  (last.op = "format" /\ ~aborted)
    => /\ curDir = TableAt(disk, DirectorySector)
       /\ \A i \in Slots : ~InUse(curDir, i)

(************************ claims on the sectors of the tree ***************)
\* the nested blocks the double-indirect block in 'sector' of d points to
NestedSectors(d, sector) ==
  [o \in 1 .. Min(NumIndirect, IF CellsN(d[sector]) < 0 THEN 0 ELSE CellsN(d[sector]))
     |-> CellsArr(d[sector])[o]]

\* the indirect block sectors header hd refers to on disk d
BlockSectorsOf(d, hd) ==
  (IF hd.numSectors > NumDirect /\ InRange(hd.single) THEN <<hd.single>> ELSE <<>>)
    \o (IF hd.numSectors > NumDirect /\ InRange(hd.double)
        THEN <<hd.double>> \o NestedSectors(d, hd.double)
        ELSE <<>>)

\* every reference of the file whose header is in 'sector': the header, the
\* data sectors, the indirect blocks
FileRefs(d, sector) ==
  <<sector>>
    \o DataSectors(d, CellsHdr(d[sector]), FileLength(CellsHdr(d[sector])))
    \o BlockSectorsOf(d, CellsHdr(d[sector]))

\* every reference made from the entries i .. of the directory in 'sector',
\* and from the directories below it down to 'depth' levels
RECURSIVE TreeRefs(_, _, _, _)
TreeRefs(d, sector, depth, i) ==
  IF i >= NumDirEntries THEN <<>>
  ELSE (IF ~InUse(TableAt(d, sector), i) THEN <<>>
        ELSE IF ~InRange(EntrySector(TableAt(d, sector), i))
        THEN <<EntrySector(TableAt(d, sector), i)>>
        ELSE FileRefs(d, EntrySector(TableAt(d, sector), i))
               \o (IF depth > 0 /\ EntryKind(TableAt(d, sector), i) = IS_DIR
                   THEN TreeRefs(d, EntrySector(TableAt(d, sector), i), depth - 1, 0)
                   ELSE <<>>))
         \o TreeRefs(d, sector, depth, i + 1)

\* the references are sectors that are set in bitmap m, and no two are the same
AllSetOnce(refs, m) ==
  /\ \A i \in 1 .. Len(refs) : InRange(refs[i]) /\ m[refs[i]]
  /\ \A i \in 1 .. Len(refs), j \in 1 .. Len(refs) : i < j => refs[i] # refs[j]

\* C31: after every Create, MakeNewDir and Remove that returns, each sector
\* referenced from the directory tree of the root (header sectors, data
\* sectors, indirect blocks) is set in the bitmap on disk, and no sector is
\* referenced twice.
C31_ReferencedSectorsSetOnce ==
  (~aborted /\ last.op \in {"create", "mkdir", "remove"})
    => AllSetOnce(TreeRefs(disk, DirectorySector, 2, 0), OnDiskMap(disk))

\* the sectors in use on disk d: the bitmap's file, the root directory's
\* file, and what the directory tree of the root refers to
InUseSectors(d) ==
  {FileRefs(d, FreeMapSector)[i] : i \in 1 .. Len(FileRefs(d, FreeMapSector))}
    \cup {FileRefs(d, DirectorySector)[i] : i \in 1 .. Len(FileRefs(d, DirectorySector))}
    \cup {TreeRefs(d, DirectorySector, 2, 0)[i] :
            i \in 1 .. Len(TreeRefs(d, DirectorySector, 2, 0))}

\* C32: after every Create, MakeNewDir and Remove that returns, each bit set
\* in the bitmap on disk is the bit of a sector of the bitmap's or the root
\* directory's file or of a sector referenced from the directory tree.
C32_NoSectorLeaks ==
  (~aborted /\ last.op \in {"create", "mkdir", "remove"})
    => \A s \in Sectors : OnDiskMap(disk)[s] => s \in InUseSectors(disk)

(************************ claims on the handles ***************************)
\* C33: every identifier that is a key of openedTable maps to an OpenFile
\* and not to NULL.
C33_OpenIdsHaveHandles ==
  \A id \in Ids : openedTable[id].open => ~openedTable[id].null

(************************ claims on path resolution ***********************)
\* the header sector of the first entry of kind IS_FILE that the components
\* arr[i..len] name, walked from the cursor c through directories; -1 when
\* they name none
RECURSIVE FileOnPath(_, _, _, _)
FileOnPath(c, arr, i, len) ==
  IF c.abort \/ i > len THEN -1
  ELSE IF FindIndex(c.dir, StrCode(arr[i])) = -1 THEN -1
  ELSE IF ~InRange(Find(c.dir, StrCode(arr[i]))) THEN -1
  ELSE IF EntryKind(c.dir, FindIndex(c.dir, StrCode(arr[i]))) = IS_FILE
  THEN Find(c.dir, StrCode(arr[i]))
  ELSE FileOnPath(Entered(OpenFile(DirWriteBack(c, c.dir, c.file),
                                   Find(c.dir, StrCode(arr[i]))),
                          Find(c.dir, StrCode(arr[i]))),
                  arr, i + 1, len)

\* the regular file among the intermediate components of a path
FileInside(path) ==
  FileOnPath(Now, splitPath(path), 1, Len(splitPath(path)) - 1)

\* C34: a call whose path has an intermediate component that names a
\* regular file does not leave the cursor on that file's header sector and
\* leaves the file's data sectors as they were.
C34_FilesAreNotEntered ==
  [][(last'.op \in {"create", "open", "remove", "list", "mkdir"}
        /\ FileInside(last'.path) # -1)
       => /\ curSector' # FileInside(last'.path)
          /\ \A s \in RefsOfFile(disk, FileInside(last'.path)) :
               InRange(s) => disk'[s] = disk[s]]_vars

====
